---- MODULE Spec2Model ----
(***************************************************************************)
(* Model of nyc_street_extractor.py.                                       *)
(*                                                                         *)
(*   Spec      : one run of main() (prompting, geocoding, shapefile check, *)
(*               extraction, rendering), with the user, the geocoder, the  *)
(*               file system and the renderers as nondeterministic         *)
(*               environment.                                              *)
(*   SpecConv  : convert_coords_to_excel_coords applied to bounded inputs. *)
(*   SpecLine  : one call of draw_line on a pair of grid cells.            *)
(*   SpecExcel : export_streets_to_excel, row by row, segment by segment.  *)
(*                                                                         *)
(* Longitudes and latitudes are Python floats in the source.  They are     *)
(* modelled in fixed point: an integer n stands for n / Den degrees, and a *)
(* grid offset n for n / Den cells.  Arithmetic is exact; the inputs are   *)
(* kept away from cell boundaries, where float rounding could differ.      *)
(***************************************************************************)
EXTENDS Integers, Sequences, FiniteSets

VARIABLES
    pc,             \* position of main()
    address,        \* address line read by get_user_input
    radius,         \* radius accepted by get_user_input
    prompts,        \* radius prompts answered so far
    rejected,       \* times "Radius must be greater than 0." was printed
    calls,          \* functions invoked so far, in order
    files,          \* state of each companion file on disk
    dataset,        \* features stored in the shapefile
    streets_data,   \* result of extract_streets
    artifacts,      \* output files produced
    outcome,        \* what main() reported at its end
    lpc,            \* position inside the rasterising code
    coords,         \* (lon, lat) vertices handed to the converter
    center,         \* (center_lon, center_lat)
    scale,          \* scale argument of the converter
    excel_coords,   \* converted vertices
    rows_left,      \* rows of streets_data still to iterate
    i,              \* segment index of export_streets_to_excel
    dl,             \* locals of the running draw_line call
    written         \* worksheet.write calls, one sequence per draw_line call

mainVars == <<pc, address, radius, prompts, rejected, calls, files, dataset,
              streets_data, artifacts, outcome>>
gridVars == <<lpc, coords, center, scale, excel_coords, rows_left, i, dl, written>>
vars == <<mainVars, gridVars>>

----------------------------------------------------------------------------
(* Bounds of the model *)

MaxPrompts == 3     \* radius lines available on stdin before end of file
MaxStreets == 2     \* features in the shapefile
MaxCoords == 2      \* vertices handed to one call of the converter (SpecConv)
GridMax == 3        \* draw_line is tried on cells of -GridMax..GridMax squared
MaxRows == 2        \* rows of streets_data handed to export_streets_to_excel
MaxVerts == 3       \* vertices of one LineString
Resolution == 1     \* fixed-point steps per 0.0001 degree

----------------------------------------------------------------------------
(* main() and the functions it calls *)

Num(v) == [kind |-> "num", val |-> v]
NaN == [kind |-> "nan", val |-> 0]
NotANumber == [kind |-> "text", val |-> 0]
Unset == [kind |-> "unset", val |-> 0]

\* Lines the user may type at the radius prompt.
RadiusLines == {Num(0 - 1), Num(0), Num(1), Num(2), NaN, NotANumber}
Addresses == {"350 5th Ave, New York, NY", "nowhere"}

\* float(input(...)) raises ValueError
FloatRaises(line) == line.kind = "text"

RadiusRejectedStrict(r) == r.kind = "num" /\ r.val < 0
\* if radius <= 0 (a NaN compares False)
RadiusRejected(r) == r.kind = "num" /\ r.val <= 0

required_extensions_no_prj == <<".shp", ".shx", ".dbf">>
required_extensions == <<".shp", ".shx", ".dbf", ".prj">>

Extensions == {".shp", ".shx", ".dbf", ".prj"}
FileStates == {"ok", "missing", "unreadable"}

\* Index of the first required file that fails a test of check_shapefile_files, 0 if none.
FirstBad(fs) ==
    LET bad == {k \in 1..Len(required_extensions) : fs[required_extensions[k]] # "ok"}
    IN IF bad = {} THEN 0 ELSE CHOOSE k \in bad : \A j \in bad : k <= j

\* streets_data of main(): not yet assigned, or the frame returned by extract_streets
Unbound == <<>>
Bound(s) == <<s>>

IsEmptyNone(s) == FALSE
\* len(streets_data) == 0
IsEmpty(s) == Cardinality(s) = 0

GridIdle ==
    /\ lpc = "idle"
    /\ coords = <<>>
    /\ center = <<0, 0>>
    /\ scale = 0
    /\ excel_coords = <<>>
    /\ rows_left = 0
    /\ i = 0
    /\ dl = <<>>
    /\ written = <<>>

Init ==
    /\ pc = "get_user_input"
    /\ address = ""
    /\ radius = Unset
    /\ prompts = 0
    /\ rejected = 0
    /\ calls = <<>>
    /\ files \in [Extensions -> FileStates]
    /\ dataset \in {1..n : n \in 0..MaxStreets}
    /\ streets_data = Unbound
    /\ artifacts = {}
    /\ outcome = "running"
    /\ GridIdle

\* except Exception as e: print(f"\nError: {str(e)}")
MainExcept ==
    /\ pc' = "done"
    /\ outcome' = "error"

\* address = input(...)
GetAddress ==
    /\ pc = "get_user_input"
    /\ \E a \in Addresses : address' = a
    /\ calls' = Append(calls, "get_user_input")
    /\ pc' = "read_radius"
    /\ UNCHANGED <<radius, prompts, rejected, files, dataset, streets_data,
                   artifacts, outcome, gridVars>>

\* One iteration of the while True loop of get_user_input.
ReadRadius ==
    /\ pc = "read_radius"
    /\ prompts < MaxPrompts
    /\ prompts' = prompts + 1
    /\ \E line \in RadiusLines :
         IF FloatRaises(line)
           THEN UNCHANGED <<radius, rejected, pc>>
           ELSE IF RadiusRejected(line)
             THEN rejected' = rejected + 1 /\ UNCHANGED <<radius, pc>>
             ELSE radius' = line /\ pc' = "geocode_address" /\ UNCHANGED rejected
    /\ UNCHANGED <<address, calls, files, dataset, streets_data, artifacts,
                   outcome, gridVars>>

\* input() meets the end of stdin: EOFError leaves get_user_input.
InputEOF ==
    /\ pc \in {"get_user_input", "read_radius"}
    /\ MainExcept
    /\ calls' = IF pc = "get_user_input" THEN Append(calls, "get_user_input") ELSE calls
    /\ UNCHANGED <<address, radius, prompts, rejected, files, dataset,
                   streets_data, artifacts, gridVars>>

GeocodeAddress ==
    /\ pc = "geocode_address"
    /\ calls' = Append(calls, "geocode_address")
    /\ \E answer \in {"location", "none", "raise"} :
         IF answer = "location"
           THEN pc' = "check_shapefile_files" /\ UNCHANGED outcome
           ELSE MainExcept
    /\ UNCHANGED <<address, radius, prompts, rejected, files, dataset,
                   streets_data, artifacts, gridVars>>

\* get_shapefile_path() followed by check_shapefile_files(shapefile_path)
CheckShapefileFiles ==
    /\ pc = "check_shapefile_files"
    /\ calls' = calls \o <<"get_shapefile_path", "check_shapefile_files">>
    /\ IF FirstBad(files) # 0
         THEN MainExcept
         ELSE pc' = "extract_streets" /\ UNCHANGED outcome
    /\ UNCHANGED <<address, radius, prompts, rejected, files, dataset,
                   streets_data, artifacts, gridVars>>

ExtractStreets ==
    /\ pc = "extract_streets"
    /\ calls' = Append(calls, "extract_streets")
    /\ \/ MainExcept /\ UNCHANGED streets_data
       \/ /\ \E hit \in SUBSET dataset : streets_data' = Bound(hit)
          /\ pc' = "check_empty"
          /\ UNCHANGED outcome
    /\ UNCHANGED <<address, radius, prompts, rejected, files, dataset,
                   artifacts, gridVars>>

\* if len(streets_data) == 0: print(...); return
CheckEmpty ==
    /\ pc = "check_empty"
    /\ IF IsEmpty(streets_data[1])
         THEN pc' = "done" /\ outcome' = "zero results"
         ELSE pc' = "visualize_streets" /\ UNCHANGED outcome
    /\ UNCHANGED <<address, radius, prompts, rejected, calls, files, dataset,
                   streets_data, artifacts, gridVars>>

VisualizeStreets ==
    /\ pc = "visualize_streets"
    /\ calls' = Append(calls, "visualize_streets")
    /\ \/ MainExcept /\ UNCHANGED artifacts
       \/ /\ artifacts' = artifacts \cup {"map_file"}
          /\ pc' = "export_streets_to_svg"
          /\ UNCHANGED outcome
    /\ UNCHANGED <<address, radius, prompts, rejected, files, dataset,
                   streets_data, gridVars>>

ExportStreetsToSvg ==
    /\ pc = "export_streets_to_svg"
    /\ calls' = Append(calls, "export_streets_to_svg")
    /\ \/ MainExcept /\ UNCHANGED artifacts
       \/ /\ artifacts' = artifacts \cup {"svg_file"}
          /\ pc' = "done"
          /\ outcome' = "success"
    /\ UNCHANGED <<address, radius, prompts, rejected, files, dataset,
                   streets_data, gridVars>>

Next ==
    \/ GetAddress
    \/ ReadRadius
    \/ InputEOF
    \/ GeocodeAddress
    \/ CheckShapefileFiles
    \/ ExtractStreets
    \/ CheckEmpty
    \/ VisualizeStreets
    \/ ExportStreetsToSvg

Spec == Init /\ [][Next]_vars

----------------------------------------------------------------------------
(* Fixed point *)

Den == 10000 * Resolution

\* n ten-thousandths of a degree
E4(n) == n * Resolution

IntFloor(n) == n \div Den
\* int(v) for v = n / Den: the fraction is dropped, towards zero
IntCast(n) == IF n >= 0 THEN n \div Den ELSE 0 - ((0 - n) \div Den)

----------------------------------------------------------------------------
(* convert_coords_to_excel_coords *)

CenterX == 50
CenterY == 50
DefaultScale == 100

excel_x(lon, center_lon, sc) == IntCast((lon - center_lon) * sc + CenterX * Den)

excel_y_not_reversed(lat, center_lat, sc) == IntCast(CenterY * Den + (lat - center_lat) * sc)
excel_y(lat, center_lat, sc) == IntCast(CenterY * Den - (lat - center_lat) * sc)

convert_coords_to_excel_coords(cs, center_lon, center_lat, sc) ==
    [k \in 1..Len(cs) |-> <<excel_x(cs[k][1], center_lon, sc),
                            excel_y(cs[k][2], center_lat, sc)>>]

\* The point of the scenario: 350 5th Ave
CenterNYC == <<E4(0 - 739857), E4(407484)>>
VertexNE == <<E4(0 - 739850), E4(407490)>>

Off(p, dlon, dlat) == <<p[1] + dlon, p[2] + dlat>>

SeqsUpTo(S, lo, hi) == UNION {[1..n -> S] : n \in lo..hi}

ConvPoints ==
    {CenterNYC, VertexNE,
     Off(CenterNYC, E4(0 - 5050), E4(5050)),
     Off(CenterNYC, E4(0 - 5150) - (Resolution - 1), E4(5150) + (Resolution - 1)),
     Off(CenterNYC, E4(250), E4(0 - 130))}
ConvCenters == {CenterNYC, <<0, 0>>, <<E4(0 - 740000), E4(410000)>>}
ConvScales == {1, DefaultScale}

MainIdle ==
    /\ pc = "idle"
    /\ address = ""
    /\ radius = Unset
    /\ prompts = 0
    /\ rejected = 0
    /\ calls = <<>>
    /\ files = [e \in Extensions |-> "ok"]
    /\ dataset = {}
    /\ streets_data = Unbound
    /\ artifacts = {}
    /\ outcome = "running"

InitConv ==
    /\ MainIdle
    /\ lpc = "convert"
    /\ coords \in SeqsUpTo(ConvPoints, 1, MaxCoords)
    /\ center \in ConvCenters
    /\ scale \in ConvScales
    /\ excel_coords = <<>>
    /\ rows_left = 0
    /\ i = 0
    /\ dl = <<>>
    /\ written = <<>>

ConvertCoords ==
    /\ lpc = "convert"
    /\ excel_coords' = convert_coords_to_excel_coords(coords, center[1], center[2], scale)
    /\ lpc' = "converted"
    /\ UNCHANGED <<mainVars, coords, center, scale, rows_left, i, dl, written>>

NextConv == ConvertCoords

SpecConv == InitConv /\ [][NextConv]_vars

----------------------------------------------------------------------------
(* draw_line *)

Abs(a) == IF a < 0 THEN 0 - a ELSE a
Max(a, b) == IF a < b THEN b ELSE a

SignWholeDifference(start, end) == end - start
\* 1 if start < end else -1
Sign(start, end) == IF start < end THEN 1 ELSE 0 - 1

InitErrSum(dx, dy) == dx + dy
\* err = dx - dy
InitErr(dx, dy) == dx - dy

\* Locals of draw_line when it reaches its loop.
DrawLineEntry(start, end) ==
    LET dx == Abs(end[1] - start[1])
        dy == Abs(end[2] - start[2])
    IN [end_x |-> end[1], end_y |-> end[2], dx |-> dx, dy |-> dy,
        sx |-> Sign(start[1], end[1]), sy |-> Sign(start[2], end[2]),
        err |-> InitErr(dx, dy), x |-> start[1], y |-> start[2]]

WriteCellSwapped(x, y) == <<y, x>>
\* worksheet.write(y, x, '', format): the cell in column x of row y
WriteCell(x, y) == <<x, y>>

AtEndColumnOnly(x, y, end_x, end_y) == x = end_x
\* if x == end_x and y == end_y: break
AtEnd(x, y, end_x, end_y) == x = end_x /\ y = end_y

\* if e2 > -dy
StepX(e2, dy) == e2 > 0 - dy

\* if e2 < dx
StepY(e2, dx) == e2 < dx

NewCall(start, end) == [start |-> start, end |-> end, cells |-> <<>>]

\* One pass through the body of the while True loop.
DrawLineIter ==
    /\ lpc = "loop"
    /\ written' = [written EXCEPT ![Len(written)].cells = Append(@, WriteCell(dl.x, dl.y))]
    /\ IF AtEnd(dl.x, dl.y, dl.end_x, dl.end_y)
         THEN lpc' = "ret" /\ UNCHANGED dl
         ELSE LET e2 == 2 * dl.err
                  goX == StepX(e2, dl.dy)
                  goY == StepY(e2, dl.dx)
                  err1 == IF goX THEN dl.err - dl.dy ELSE dl.err
              IN /\ dl' = [dl EXCEPT !.err = IF goY THEN err1 + dl.dx ELSE err1,
                                     !.x = IF goX THEN @ + dl.sx ELSE @,
                                     !.y = IF goY THEN @ + dl.sy ELSE @]
                 /\ UNCHANGED lpc
    /\ UNCHANGED <<mainVars, coords, center, scale, excel_coords, rows_left, i>>

Coord == (0 - GridMax)..GridMax
Cells == Coord \X Coord

InitLine ==
    /\ MainIdle
    /\ lpc = "call"
    /\ coords = <<>>
    /\ center = <<0, 0>>
    /\ scale = 0
    /\ excel_coords \in [1..2 -> Cells]
    /\ rows_left = 0
    /\ i = 0
    /\ dl = <<>>
    /\ written = <<>>

\* draw_line(worksheet, start_x, start_y, end_x, end_y, format) up to its loop
DrawLineCall ==
    /\ lpc = "call"
    /\ dl' = DrawLineEntry(excel_coords[i + 1], excel_coords[i + 2])
    /\ written' = Append(written, NewCall(excel_coords[i + 1], excel_coords[i + 2]))
    /\ lpc' = "loop"
    /\ UNCHANGED <<mainVars, coords, center, scale, excel_coords, rows_left, i>>

NextLine ==
    \/ DrawLineCall
    \/ DrawLineIter

SpecLine == InitLine /\ [][NextLine]_vars

\* The loop runs on its own: an iteration that can be taken is taken.
SpecLineFair == SpecLine /\ WF_vars(NextLine)

----------------------------------------------------------------------------
(* export_streets_to_excel *)

SegmentCountShort(ec) == Len(ec) - 2
\* range(len(excel_coords) - 1)
SegmentCount(ec) == Len(ec) - 1

ExcelPoints ==
    {CenterNYC, VertexNE,
     Off(CenterNYC, E4(0 - 5150), E4(5150)),
     Off(CenterNYC, E4(250), E4(0 - 130))}

\* Rows of streets_data: LineStrings, and a geometry of another type.
Rows ==
    {[kind |-> "LineString", coords |-> cs] : cs \in SeqsUpTo(ExcelPoints, 2, MaxVerts)}
      \cup {[kind |-> "MultiLineString", coords |-> <<>>]}

InitExcel ==
    /\ MainIdle
    /\ lpc = "rows"
    /\ coords = <<>>
    /\ center = CenterNYC
    /\ scale = DefaultScale
    /\ excel_coords = <<>>
    /\ rows_left \in 0..MaxRows
    /\ i = 0
    /\ dl = <<>>
    /\ written = <<>>

\* for idx, row in streets_data.iterrows(): the next row, converted if a LineString
ExcelNextRow ==
    /\ lpc = "rows"
    /\ rows_left > 0
    /\ rows_left' = rows_left - 1
    /\ \E row \in Rows :
         IF row.kind = "LineString"
           THEN /\ coords' = row.coords
                /\ excel_coords' =
                     convert_coords_to_excel_coords(row.coords, center[1], center[2], scale)
                /\ i' = 0
                /\ written' = <<>>
                /\ lpc' = "segs"
           ELSE UNCHANGED <<coords, excel_coords, i, written, lpc>>
    /\ UNCHANGED <<mainVars, center, scale, dl>>

\* for i in range(len(excel_coords) - 1): draw_line(...) is called, or the loop ends
ExcelSegment ==
    /\ lpc = "segs"
    /\ IF i < SegmentCount(excel_coords)
         THEN /\ dl' = DrawLineEntry(excel_coords[i + 1], excel_coords[i + 2])
              /\ written' = Append(written, NewCall(excel_coords[i + 1], excel_coords[i + 2]))
              /\ lpc' = "loop"
         ELSE /\ lpc' = "rows"
              /\ UNCHANGED <<dl, written>>
    /\ UNCHANGED <<mainVars, coords, center, scale, excel_coords, rows_left, i>>

\* draw_line returns; the for loop takes its next index
ExcelSegmentReturn ==
    /\ lpc = "ret"
    /\ i' = i + 1
    /\ lpc' = "segs"
    /\ UNCHANGED <<mainVars, coords, center, scale, excel_coords, rows_left, dl, written>>

\* workbook.close(); return True
ExcelClose ==
    /\ lpc = "rows"
    /\ rows_left = 0
    /\ lpc' = "closed"
    /\ UNCHANGED <<mainVars, coords, center, scale, excel_coords, rows_left, i, dl, written>>

NextExcel ==
    \/ ExcelNextRow
    \/ ExcelSegment
    \/ DrawLineIter
    \/ ExcelSegmentReturn
    \/ ExcelClose

SpecExcel == InitExcel /\ [][NextExcel]_vars

----------------------------------------------------------------------------
(* Properties of convert_coords_to_excel_coords *)

\* v / Den with its fraction dropped towards zero is c
TruncatesTo(v, c) ==
    /\ v >= 0 => (c * Den <= v /\ v < (c + 1) * Den)
    /\ v < 0 => ((c - 1) * Den < v /\ v <= c * Den)

\* the floor of v / Den is c
FloorsTo(v, c) == c * Den <= v /\ v < (c + 1) * Den

\* x + 50 and 50 - y of vertex k, in fixed point
GridX(k) == (coords[k][1] - center[1]) * scale + 50 * Den
GridY(k) == 50 * Den - (coords[k][2] - center[2]) * scale

Converted == lpc = "converted"

\* C4 (as claimed): every vertex is mapped to column floor(x + 50) and row
\* floor(50 - y), also where x + 50 or 50 - y is negative and not whole.
C4_ConvertFloors ==
    Converted =>
        /\ Len(excel_coords) = Len(coords)
        /\ \A k \in 1..Len(coords) :
             /\ FloorsTo(GridX(k), excel_coords[k][1])
             /\ FloorsTo(GridY(k), excel_coords[k][2])

\* C4 (amended): every vertex is mapped to column int(x + 50) and row
\* int(50 - y), the value with its fraction dropped towards zero: the floor
\* where the value is >= 0, the ceiling where it is negative.
C4_ConvertTruncates ==
    Converted =>
        /\ Len(excel_coords) = Len(coords)
        /\ \A k \in 1..Len(coords) :
             /\ TruncatesTo(GridX(k), excel_coords[k][1])
             /\ TruncatesTo(GridY(k), excel_coords[k][2])

C4_Witness ==
    /\ Converted
    /\ \E k \in 1..Len(coords) :
         /\ GridX(k) < 0 /\ GridX(k) % Den # 0
         /\ GridY(k) < 0 /\ GridY(k) % Den # 0
         /\ excel_coords[k][1] * Den > GridX(k)
         /\ excel_coords[k][2] * Den > GridY(k)

Scenario ==
    /\ Converted
    /\ center = CenterNYC
    /\ scale = 100
    /\ coords = <<CenterNYC, VertexNE>>

\* C5 (as claimed): with center (-73.9857, 40.7484) and scale 100 the vertex
\* (-73.9857, 40.7484) maps to cell (50, 50) and the vertex (-73.9850, 40.7490)
\* to a cell with column > 50 and row < 50.
C5_ScenarioNorthEast ==
    Scenario =>
        /\ excel_coords[1] = <<50, 50>>
        /\ excel_coords[2][1] > 50
        /\ excel_coords[2][2] < 50

\* C5 (amended): in that scenario the first vertex maps to cell (50, 50) and
\* the second to cell (50, 49): its row is below 50, its column stays 50.
C5_ScenarioCells ==
    Scenario =>
        /\ excel_coords[1] = <<50, 50>>
        /\ excel_coords[2] = <<50, 49>>

C5_Witness == Scenario /\ Len(excel_coords) = 2 /\ excel_coords[2][2] < 50

----------------------------------------------------------------------------
(* Properties of draw_line *)

\* The call of draw_line numbered k has returned.
Returned(k) == k < Len(written) \/ lpc # "loop"

Last(s) == s[Len(s)]

\* C1: a call with start # end writes start first and end last, and writes
\* nothing after the end cell.
C1_StartFirstEndLast ==
    \A k \in 1..Len(written) :
        LET c == written[k] IN
        c.start # c.end =>
            /\ Len(c.cells) >= 1 => c.cells[1] = c.start
            /\ \A j \in 1..(Len(c.cells) - 1) : c.cells[j] # c.end
            /\ Returned(k) => (Len(c.cells) >= 2 /\ Last(c.cells) = c.end)

C1_Witness ==
    /\ lpc = "ret"
    /\ Len(written) = 1
    /\ written[1].start = <<0, 2>>
    /\ written[1].end = <<0 - 3, 0 - 1>>
    /\ Last(written[1].cells) = <<0 - 3, 0 - 1>>

\* C2: two cells written one after the other by a call differ by at most 1
\* in column and in row, and are never the same cell.
C2_EightConnected ==
    \A k \in 1..Len(written) :
        LET cs == written[k].cells IN
        \A j \in 1..(Len(cs) - 1) :
            /\ Abs(cs[j + 1][1] - cs[j][1]) <= 1
            /\ Abs(cs[j + 1][2] - cs[j][2]) <= 1
            /\ cs[j + 1] # cs[j]

C2_Witness ==
    /\ lpc = "ret"
    /\ Len(written) = 1
    /\ \E j \in 1..(Len(written[1].cells) - 1) :
         /\ written[1].cells[j + 1][1] # written[1].cells[j][1]
         /\ written[1].cells[j + 1][2] # written[1].cells[j][2]
    /\ \E j \in 1..(Len(written[1].cells) - 1) :
         written[1].cells[j + 1][2] = written[1].cells[j][2]

\* C3: a call with start = end = p writes the one cell p and leaves its loop
\* in the first iteration.
C3_SamePointOneCell ==
    \A k \in 1..Len(written) :
        LET c == written[k] IN
        c.start = c.end =>
            /\ Len(c.cells) <= 1
            /\ Len(c.cells) = 1 => (c.cells[1] = c.start /\ Returned(k))

C3_Witness ==
    /\ lpc = "ret"
    /\ Len(written) = 1
    /\ written[1].start = written[1].end
    /\ written[1].start[1] # written[1].start[2]
    /\ written[1].cells = <<written[1].start>>

\* max(|end_x - start_x|, |end_y - start_y|)
MajorLength(c) == Max(Abs(c.end[1] - c.start[1]), Abs(c.end[2] - c.start[2]))

\* Counts of C10: every call ends having written max(|end_x - start_x|, |end_y - start_y|) + 1
\* cells: each iteration advances one step along the major axis, and the walk
\* never goes past the end cell.
C10_Counts ==
    \A k \in 1..Len(written) :
        LET c == written[k] IN
        /\ Len(c.cells) <= MajorLength(c) + 1
        /\ Returned(k) => Len(c.cells) = MajorLength(c) + 1
        /\ ~Returned(k) =>
             Len(c.cells) = Max(Abs(dl.x - c.start[1]), Abs(dl.y - c.start[2]))

\* C10: the counts above hold throughout, and the loop of draw_line is left.
C10_TerminatesAfterMajorPlusOne == [](C10_Counts) /\ <>(lpc = "ret")

C10_Witness ==
    /\ lpc = "ret"
    /\ Len(written) = 1
    /\ MajorLength(written[1]) = 3
    /\ Abs(written[1].end[2] - written[1].start[2]) = 2
    /\ Len(written[1].cells) = 4

----------------------------------------------------------------------------
(* Properties of export_streets_to_excel *)

\* The for loop over the segments of the current LineString has ended.
FeatureDone == lpc \in {"rows", "closed"} /\ excel_coords # <<>>

\* Number of worksheet.write calls made for the current feature on a cell.
TimesWritten(cell) ==
    Cardinality({kj \in UNION {{k} \X (1..Len(written[k].cells)) : k \in 1..Len(written)} :
                   written[kj[1]].cells[kj[2]] = cell})

\* C9: for a LineString with projected vertices v0..vn, draw_line is called n
\* times, once per pair (vi, vi+1) in increasing i, and each interior vertex
\* cell is written at least twice.
C9_OneCallPerConsecutivePair ==
    lpc # "convert" /\ lpc # "converted" /\ lpc # "call" /\ excel_coords # <<>> =>
        /\ Len(written) <= Len(excel_coords) - 1
        /\ \A k \in 1..Len(written) :
             /\ written[k].start = excel_coords[k]
             /\ written[k].end = excel_coords[k + 1]
        /\ lpc = "segs" => Len(written) = i
        /\ FeatureDone =>
             /\ Len(written) = Len(excel_coords) - 1
             /\ \A k \in 1..Len(written) :
                  /\ written[k].cells[1] = excel_coords[k]
                  /\ Last(written[k].cells) = excel_coords[k + 1]
             /\ \A v \in 2..(Len(excel_coords) - 1) : TimesWritten(excel_coords[v]) >= 2

C9_Witness ==
    /\ FeatureDone
    /\ Len(excel_coords) = 3
    /\ Len(written) = 2
    /\ excel_coords[1] # excel_coords[2]
    /\ excel_coords[2] # excel_coords[3]
    /\ TimesWritten(excel_coords[2]) = 2

----------------------------------------------------------------------------
(* Properties of main() *)

Called(f) == \E k \in 1..Len(calls) : calls[k] = f

RadiusPositive == radius.kind = "num" /\ radius.val > 0

SomeFileBad == \E e \in Extensions : files[e] # "ok"

\* C7: when a required companion file is missing or unreadable the run ends
\* in the error outcome, and extract_streets and the rendering steps never run.
C7_MissingFileStopsBeforeExtract ==
    SomeFileBad =>
        /\ ~Called("extract_streets")
        /\ ~Called("visualize_streets")
        /\ ~Called("export_streets_to_svg")
        /\ streets_data = Unbound
        /\ artifacts = {}
        /\ (pc = "done" => outcome = "error")

C7_Witness ==
    /\ files[".prj"] = "missing"
    /\ \A e \in Extensions \ {".prj"} : files[e] = "ok"
    /\ Called("check_shapefile_files")
    /\ pc = "done"
    /\ outcome = "error"

\* C8: when extract_streets returns an empty subset the run ends in the
\* "zero results" state, which is not the error outcome, and no rendering
\* step runs: no map file and no SVG file is produced.
C8_EmptySubsetIsZeroResults ==
    streets_data = Bound({}) =>
        /\ outcome # "error"
        /\ (pc = "done" => outcome = "zero results")
        /\ pc \in {"check_empty", "done"}
        /\ ~Called("visualize_streets")
        /\ ~Called("export_streets_to_svg")
        /\ artifacts = {}

C8_Witness ==
    /\ streets_data = Bound({})
    /\ dataset # {}
    /\ pc = "done"
    /\ outcome = "zero results"

====
